---- MODULE Spec2Model ----
(***************************************************************************)
(* Transit certificate binding: pathSignCsrWrite and                      *)
(* pathSetCertificateWrite of builtin/logical/transit/path_certificates.go *)
(* with their helpers parseCsr, parseCertificateChain and                  *)
(* hasSingleLeafCertificate.  The keysutil policy store (GetPolicy, Lock,  *)
(* Unlock, CreateCsr, ValidateLeafCertKeyMatch, PersistCertificateChain)   *)
(* is outside the files modelled here and follows the written interface.   *)
(***************************************************************************)
EXTENDS Integers, Sequences, FiniteSets, TLC

\* ------------------------------------------------------------------ bounds
\* Number of concurrent callers of the concurrent specification.
NumCallers == 2
\* Longest PEM input (in tokens) a caller submits, long leaf runs aside.
MaxChainLen == 2
\* Explicit "version" inputs range over 1..MaxVersion.
MaxVersion == 2

\* ------------------------------------------------------- program constants
\* leafCertsCount is a uint8: it counts modulo 2^8.
LeafCountModulus == 256

Callers == 1..NumCallers

\* ------------------------------------------------------------- key store
RsaTypes == {"rsa-2048", "rsa-3072", "rsa-4096"}
EcdsaTypes == {"ecdsa-p256", "ecdsa-p384", "ecdsa-p521"}
Ed25519Types == {"ed25519"}
SymmetricTypes == {"aes256-gcm96"}
KeyTypes == RsaTypes \cup EcdsaTypes \cup Ed25519Types \cup SymmetricTypes

\* The keys the store holds: one per key type, named after its type.
KeyNames == KeyTypes
\* A name no key has.
MissingName == "missing"
\* LatestVersion of each key: rsa-2048 was rotated once.
LatestVersion(name) == IF name = "rsa-2048" THEN 2 ELSE 1
\* GetPolicy's answer for a stored key.
Policy(name) == [Name |-> name, Type |-> name, LatestVersion |-> LatestVersion(name)]

\* KeyType.SigningSupported
SigningSupported(type) == type \notin SymmetricTypes

\* Public half of the key material of (name, version); "foreign" is a key
\* the store does not hold.
KeyPub(name, version) == <<name, version>>
ForeignPub == <<"foreign", 0>>
VersionExists(name, version) == version >= 1 /\ version <= LatestVersion(name)

\* --------------------------------------------------------- certificates
\* x509.Certificate, the fields the handlers read.
Cert(bc, ca, alg, pub) ==
    [BasicConstraintsValid |-> bc, IsCA |-> ca, PublicKeyAlgorithm |-> alg, PublicKey |-> pub]

LeafRsa2 == Cert(TRUE, FALSE, "RSA", KeyPub("rsa-2048", 2))
LeafRsa1 == Cert(TRUE, FALSE, "RSA", KeyPub("rsa-2048", 1))
LeafRsaX == Cert(TRUE, FALSE, "RSA", ForeignPub)
LeafEc1 == Cert(TRUE, FALSE, "ECDSA", KeyPub("ecdsa-p256", 1))
LeafEd1 == Cert(TRUE, FALSE, "Ed25519", KeyPub("ed25519", 1))
CaRsa2 == Cert(TRUE, TRUE, "RSA", KeyPub("rsa-2048", 2))
CaEcX == Cert(TRUE, TRUE, "ECDSA", ForeignPub)
NoBcRsa2 == Cert(FALSE, FALSE, "RSA", KeyPub("rsa-2048", 2))

Certs == {LeafRsa1, LeafRsa2, LeafRsaX, LeafEc1, LeafEd1, CaRsa2, CaEcX, NoBcRsa2}

\* A certificate is a leaf iff its basic constraints are valid and it is no CA.
IsLeaf(cert) == cert.BasicConstraintsValid /\ ~cert.IsCA

\* ------------------------------------------------------------- PEM input
\* A PEM input is a sequence of tokens: text that is no PEM block, or one
\* PEM block with its type line and its DER payload.
NoCert == Cert(FALSE, FALSE, "none", ForeignPub)
Garbage == [kind |-> "garbage", type |-> "", what |-> "", cert |-> NoCert, subject |-> ""]
CertBlock(c) ==
    [kind |-> "block", type |-> "CERTIFICATE", what |-> "cert", cert |-> c, subject |-> ""]
CsrBlock(type, subject) ==
    [kind |-> "block", type |-> type, what |-> "csr", cert |-> NoCert, subject |-> subject]
JunkBlock == [kind |-> "block", type |-> "CERTIFICATE", what |-> "junk", cert |-> NoCert, subject |-> ""]

\* pem.EncodeToMemory of each certificate of a chain, concatenated.
EncodeChain(chain) == [i \in 1..Len(chain) |-> CertBlock(chain[i])]

\* Index of the first PEM block of rest, 0 when it holds none.
firstBlock(rest) ==
    IF \E i \in 1..Len(rest) : rest[i].kind = "block"
    THEN CHOOSE i \in 1..Len(rest) :
            /\ rest[i].kind = "block"
            /\ \A j \in 1..(i - 1) : rest[j].kind # "block"
    ELSE 0

\* pem.Decode: skips what precedes the first PEM block; returns the block and
\* the input after it, or no block and the input as it was.
pemDecode(rest) ==
    LET i == firstBlock(rest)
    IN  IF i = 0 THEN [found |-> FALSE, block |-> Garbage, rest |-> rest]
        ELSE [found |-> TRUE, block |-> rest[i], rest |-> SubSeq(rest, i + 1, Len(rest))]

\* x509.ParseCertificate on a block's bytes.
ParseCertificateOk(block) == block.what = "cert"
\* x509.ParseCertificateRequest on a block's bytes.
ParseCertificateRequestOk(block) == block.what = "csr"

\* parseCsr: the empty string is the zero template; else the first PEM block
\* must parse as a certificate request.
parseCsr(csrStr) ==
    IF csrStr = <<>> THEN [ok |-> TRUE, subject |-> ""]
    ELSE LET d == pemDecode(csrStr)
         IN  IF ~d.found THEN [ok |-> FALSE, subject |-> ""]
             ELSE IF ~ParseCertificateRequestOk(d.block) THEN [ok |-> FALSE, subject |-> ""]
             ELSE [ok |-> TRUE, subject |-> d.block.subject]

IsBlock(token) == token.kind = "block"

\* parseCertificateChain, first loop: pem.Decode is called on what is left
\* until nothing is left.  Each call consumes the text before a block and the
\* block; the loop fails when text is left that holds no block, that is when
\* the input does not end with a block.  It collects the blocks in input order.
decodeBlocks(certChainStr) ==
    IF Len(certChainStr) # 0 /\ ~IsBlock(certChainStr[Len(certChainStr)])
    THEN [ok |-> FALSE, blocks |-> <<>>]
    ELSE [ok |-> TRUE, blocks |-> SelectSeq(certChainStr, IsBlock)]

\* Mutant of parseCertificateChain: each certificate put in front of the list.
parseCertificateChainReversed(certChainStr) ==
    LET dec == decodeBlocks(certChainStr)
        n == Len(dec.blocks)
    IN  IF ~dec.ok \/ n = 0 \/ \E i \in 1..n : ~ParseCertificateOk(dec.blocks[i])
        THEN [ok |-> FALSE, certificates |-> <<>>]
        ELSE [ok |-> TRUE, certificates |-> [i \in 1..n |-> dec.blocks[n + 1 - i].cert]]

\* Mutant of parseCertificateChain: a block that is no certificate skipped.
parseCertificateChainSkipsBad(certChainStr) ==
    LET dec == decodeBlocks(certChainStr)
        good == SelectSeq(dec.blocks, ParseCertificateOk)
    IN  IF ~dec.ok \/ Len(good) = 0 THEN [ok |-> FALSE, certificates |-> <<>>]
        ELSE [ok |-> TRUE, certificates |-> [i \in 1..Len(good) |-> good[i].cert]]

\* parseCertificateChain: all blocks, at least one, each a certificate.
parseCertificateChain(certChainStr) ==
    LET dec == decodeBlocks(certChainStr)
    IN  IF ~dec.ok THEN [ok |-> FALSE, certificates |-> <<>>]
        ELSE IF Len(dec.blocks) = 0 THEN [ok |-> FALSE, certificates |-> <<>>]
        ELSE IF \E i \in 1..Len(dec.blocks) : ~ParseCertificateOk(dec.blocks[i])
             THEN [ok |-> FALSE, certificates |-> <<>>]
        ELSE [ok |-> TRUE,
              certificates |-> [i \in 1..Len(dec.blocks) |-> dec.blocks[i].cert]]

\* hasSingleLeafCertificate's loop: a uint8 counter, one more (modulo 2^8) for
\* each certificate with valid basic constraints that is no CA.
leafCertsCount(certChain) ==
    Cardinality({i \in 1..Len(certChain) : IsLeaf(certChain[i])}) % LeafCountModulus

hasSingleLeafCertificate(certChain) == leafCertsCount(certChain) = 1

\* The switch on p.Type: the public-key algorithm each key type requires.
keyTypeMatches(type, alg) ==
    \/ type \in EcdsaTypes /\ alg = "ECDSA"
    \/ type \in Ed25519Types /\ alg = "Ed25519"
    \/ type \in RsaTypes /\ alg = "RSA"

\* The certificate whose algorithm and key the handler reads as the leaf's.
leafCertOf(certChain) == certChain[1]

\* ---------------------------------------------------------------- inputs
\* All sequences over S of length at most n.
SeqUpTo(S, n) == UNION {[1..k -> S] : k \in 0..n}

ChainTokens == {CertBlock(c) : c \in Certs} \cup {Garbage, JunkBlock}
CsrTokens ==
    {CsrBlock("CERTIFICATE REQUEST", "CN=a"), CsrBlock("CERTIFICATE", "CN=b"), Garbage, JunkBlock}

\* Runs of one leaf certificate as long as the counter's modulus, and one more.
LongChains ==
    {[i \in 1..n |-> CertBlock(LeafRsa2)] : n \in {LeafCountModulus, LeafCountModulus + 1}}

ChainInputs == SeqUpTo(ChainTokens, MaxChainLen) \cup LongChains
CsrInputs == SeqUpTo(CsrTokens, MaxChainLen)

\* The "version" field: absent, or an explicit integer.
VersionInputs == {<<>>} \cup {<<v>> : v \in 1..MaxVersion}

Request(op, name, version, input) ==
    [op |-> op, name |-> name, version |-> version, input |-> input]
NoRequest == Request("none", "", <<>>, <<>>)

\* What one caller may submit.
Requests ==
    {Request("sign", n, v, i) :
        n \in KeyNames \cup {MissingName}, v \in VersionInputs, i \in CsrInputs}
    \cup
    {Request("import", n, v, i) :
        n \in KeyNames \cup {MissingName}, v \in VersionInputs, i \in ChainInputs}

\* What concurrent callers submit: both operations on two keys.
ConcRequests ==
    {Request("sign", n, v, <<>>) : n \in {"rsa-2048", "ecdsa-p256"}, v \in {<<>>, <<1>>}}
    \cup
    {Request("import", n, <<>>, EncodeChain(<<LeafRsa2>>)) : n \in {"rsa-2048", "ecdsa-p256"}}
    \cup
    {Request("sign", MissingName, <<>>, <<>>)}

\* ------------------------------------------------------------- responses
NoData == [name |-> "", type |-> "", subject |-> "", pub |-> ForeignPub]
Response(kind, err, data) == [kind |-> kind, err |-> err, data |-> data]
NoResponse == Response("none", "", NoData)
\* logical.ErrorResponse(...), logical.ErrInvalidRequest
UserError(err) == Response("user", err, NoData)
\* return nil, err
InternalError(err) == Response("internal", err, NoData)
\* return resp, nil / return nil, nil
Success(data) == Response("ok", "", data)

\* ----------------------------------------------------------------- state
VARIABLES
    cachingDisabled,  \* b.System().CachingDisabled()
    certs,            \* the chain attached to each (key, version); <<>> is none
    certs0,           \* the attachments before any call
    lock,             \* each key's lock: its writer (0 is none) and its readers
    pc,               \* where each caller's call stands
    req,              \* each caller's request
    local,            \* each call's local variables
    resp,             \* each call's response
    hist              \* the store calls each call has made

vars == <<cachingDisabled, certs, certs0, lock, pc, req, local, resp, hist>>

KeyVersions == {<<n, v>> : n \in KeyNames, v \in 1..MaxVersion + 1}

StoredVersions == {kv \in KeyVersions : VersionExists(kv[1], kv[2])}

NoLocal == [keyVersion |-> 0, certChain |-> <<>>, subject |-> "", err |-> ""]
NoHist ==
    [lockCalls |-> 0, unlockCalls |-> 0, csrCalls |-> 0, verifyCalls |-> 0,
     persistCalls |-> 0, persistFailed |-> FALSE]

\* A fresh store, or one where rsa-2048 version 1 already has a certificate.
InitialCerts ==
    {[kv \in StoredVersions |-> <<>>],
     [kv \in StoredVersions |-> IF kv = <<"rsa-2048", 1>> THEN <<LeafRsa1>> ELSE <<>>]}

Init ==
    /\ cachingDisabled \in BOOLEAN
    /\ certs \in InitialCerts
    /\ certs0 = certs
    /\ lock = [n \in KeyNames |-> [writer |-> 0, readers |-> {}]]
    /\ pc = [p \in Callers |-> "idle"]
    /\ req = [p \in Callers |-> NoRequest]
    /\ local = [p \in Callers |-> NoLocal]
    /\ resp = [p \in Callers |-> NoResponse]
    /\ hist = [p \in Callers |-> NoHist]

\* ------------------------------------------------------------ the lock
\* p.Lock(exclusive) can be granted: a writer excludes all, readers share.
LockAvailable(name, exclusive) ==
    IF exclusive
    THEN lock[name].writer = 0 /\ lock[name].readers = {}
    ELSE lock[name].writer = 0

HoldsLock(p, name) == lock[name].writer = p \/ p \in lock[name].readers

\* p.Lock(exclusive) by caller p.
Acquired(p, name, exclusive) ==
    IF exclusive
    THEN [lock EXCEPT ![name].writer = p]
    ELSE [lock EXCEPT ![name].readers = @ \cup {p}]

\* p.Unlock() by caller p: gives up what p holds, in the mode p holds it.
Released(p, name) ==
    IF lock[name].writer = p
    THEN [lock EXCEPT ![name].writer = 0]
    ELSE [lock EXCEPT ![name].readers = @ \ {p}]

\* Mutants of the lock modes: the sign taking the write lock, the import the
\* read lock.
SignLockAsWriter == TRUE
ImportLockAsReader == FALSE

\* The mode pathSignCsrWrite asks for: p.Lock(false).
SignLockExclusive == FALSE
\* The mode pathSetCertificateWrite asks for: p.Lock(true).
ImportLockExclusive == TRUE

LockExclusive(op) == IF op = "sign" THEN SignLockExclusive ELSE ImportLockExclusive

\* ------------------------------------------------------- handler bodies
\* Mutant of AfterReturn: the unlock written on the success path only.
AfterReturnUnlockOnSuccess(response) == IF response.kind = "ok" THEN "unlock" ELSE "done"

\* Where a return statement below "defer p.Unlock()" goes: the deferred
\* unlock runs before the handler returns.
AfterReturn(response) == "unlock"

\* Mutant of targetVersion: the "version" field never read.
targetVersionLatest(policy, version) == policy.LatestVersion

\* The version a call targets: the "version" field if given, else the latest.
targetVersion(policy, version) ==
    IF version # <<>> THEN version[1] ELSE policy.LatestVersion

Going(keyVersion, certChain, subject) ==
    [ret |-> NoResponse, keyVersion |-> keyVersion, certChain |-> certChain, subject |-> subject]
Returning(response) ==
    [ret |-> response, keyVersion |-> 0, certChain |-> <<>>, subject |-> ""]

\* Mutant of signChecks: the template parsed before the key type is looked at.
signChecksParseFirst(policy, request) ==
    LET csrTemplate == parseCsr(request.input)
    IN  IF ~csrTemplate.ok THEN Returning(UserError("MalformedInput"))
        ELSE IF ~SigningSupported(policy.Type) THEN Returning(UserError("SigningUnsupported"))
        ELSE Going(targetVersion(policy, request.version), <<>>, csrTemplate.subject)

\* Mutant of signChecks: the parsed template not handed on.
signChecksDropsSubject(policy, request) ==
    IF ~SigningSupported(policy.Type) THEN Returning(UserError("SigningUnsupported"))
    ELSE IF ~parseCsr(request.input).ok THEN Returning(UserError("MalformedInput"))
    ELSE Going(targetVersion(policy, request.version), <<>>, "")

\* pathSignCsrWrite from the signing-support check to the version choice.
signChecks(policy, request) ==
    IF ~SigningSupported(policy.Type) THEN Returning(UserError("SigningUnsupported"))
    ELSE LET csrTemplate == parseCsr(request.input)
         IN  IF ~csrTemplate.ok THEN Returning(UserError("MalformedInput"))
             ELSE Going(targetVersion(policy, request.version), <<>>, csrTemplate.subject)

\* pathSetCertificateWrite from the signing-support check to the key-type switch.
importChecks(policy, request) ==
    IF ~SigningSupported(policy.Type) THEN Returning(UserError("SigningUnsupported"))
    ELSE LET parsed == parseCertificateChain(request.input)
             certChain == parsed.certificates
         IN  IF ~parsed.ok THEN Returning(UserError("MalformedInput"))
             ELSE IF ~hasSingleLeafCertificate(certChain)
                  THEN Returning(UserError("InvalidChain"))
             ELSE IF ~keyTypeMatches(policy.Type, leafCertOf(certChain).PublicKeyAlgorithm)
                  THEN Returning(UserError("KeyTypeMismatch"))
             ELSE Going(targetVersion(policy, request.version), certChain, "")

\* Mutant of ImportNext: the chain persisted before the key match is verified.
ImportNextPersistFirst(step) ==
    CASE step = "checks" -> "persist"
      [] step = "persist" -> "verify"
      [] step = "verify" -> "return"

\* The order of pathSetCertificateWrite's steps after its checks.
ImportNext(step) ==
    CASE step = "checks" -> "verify"
      [] step = "verify" -> "persist"
      [] step = "persist" -> "return"

\* The error pathSetCertificateWrite tests after PersistCertificateChain: the
\* call's result is dropped, and err still holds ValidateLeafCertKeyMatch's.
errAfterPersist(err, persistErr) == err

\* ------------------------------------------------------------- the store
\* Policy.ValidateLeafCertKeyMatch: an error when the version is not there,
\* else whether the public key is that version's.
ValidateLeafCertKeyMatch(name, keyVersion, alg, pub) ==
    IF ~VersionExists(name, keyVersion) THEN [err |-> "VersionNotFound", valid |-> FALSE]
    ELSE [err |-> "", valid |-> keyTypeMatches(Policy(name).Type, alg) /\ pub = KeyPub(name, keyVersion)]

\* Policy.CreateCsr: a request for the version's key with the template's subject.
CreateCsr(name, keyVersion, subject) ==
    IF ~VersionExists(name, keyVersion) THEN [err |-> "VersionNotFound", csr |-> NoData]
    ELSE [err |-> "",
          csr |-> [name |-> name, type |-> Policy(name).Type, subject |-> subject,
                   pub |-> KeyPub(name, keyVersion)]]

\* pathSignCsrWrite's response data: p.Name, p.Type.String() and the CSR.
signResponse(policy, csr) ==
    [name |-> policy.Name, type |-> policy.Type, subject |-> csr.subject, pub |-> csr.pub]

\* Mutant of afterValidate: a store error answered as a key mismatch.
afterValidateAllUser(err, valid) ==
    IF err # "" \/ ~valid THEN UserError("KeyMismatch") ELSE NoResponse

\* What pathSetCertificateWrite makes of ValidateLeafCertKeyMatch's answer:
\* an error is internal, "not valid" is the user's, else it goes on.
afterValidate(err, valid) ==
    IF err # "" THEN InternalError("ValidateFailed")
    ELSE IF ~valid THEN UserError("KeyMismatch")
    ELSE NoResponse

\* --------------------------------------------------------------- actions
Bump(p, field) == [hist EXCEPT ![p][field] = @ + 1]

\* A call arrives and GetPolicy fails.
GetPolicyError(p, requests) ==
    /\ pc[p] = "idle"
    /\ \E r \in requests :
        /\ req' = [req EXCEPT ![p] = r]
        /\ resp' = [resp EXCEPT ![p] = InternalError("LookupFailed")]
    /\ pc' = [pc EXCEPT ![p] = "done"]
    /\ UNCHANGED <<cachingDisabled, certs, certs0, lock, local, hist>>

\* A call arrives and GetPolicy finds no key of that name.
GetPolicyNil(p, requests) ==
    /\ pc[p] = "idle"
    /\ \E r \in requests :
        /\ r.name \notin KeyNames
        /\ req' = [req EXCEPT ![p] = r]
        /\ resp' = [resp EXCEPT ![p] = UserError("KeyNotFound")]
    /\ pc' = [pc EXCEPT ![p] = "done"]
    /\ UNCHANGED <<cachingDisabled, certs, certs0, lock, local, hist>>

\* A call arrives and GetPolicy returns the key's policy.
GetPolicy(p, requests) ==
    /\ pc[p] = "idle"
    /\ \E r \in requests :
        /\ r.name \in KeyNames
        /\ req' = [req EXCEPT ![p] = r]
    /\ pc' = [pc EXCEPT ![p] = "lock"]
    /\ UNCHANGED <<cachingDisabled, certs, certs0, lock, local, resp, hist>>

\* if !CachingDisabled() { p.Lock(...) }, with caching enabled.
Lock(p) ==
    /\ pc[p] = "lock"
    /\ ~cachingDisabled
    /\ LockAvailable(req[p].name, LockExclusive(req[p].op))
    /\ lock' = Acquired(p, req[p].name, LockExclusive(req[p].op))
    /\ hist' = Bump(p, "lockCalls")
    /\ pc' = [pc EXCEPT ![p] = "checks"]
    /\ UNCHANGED <<cachingDisabled, certs, certs0, req, local, resp>>

\* if !CachingDisabled() { p.Lock(...) }, with caching disabled: no call.
SkipLock(p) ==
    /\ pc[p] = "lock"
    /\ cachingDisabled
    /\ pc' = [pc EXCEPT ![p] = "checks"]
    /\ UNCHANGED <<cachingDisabled, certs, certs0, lock, req, local, resp, hist>>

\* A step that ends the handler body with a response.
Return(p, response) ==
    /\ resp' = [resp EXCEPT ![p] = response]
    /\ pc' = [pc EXCEPT ![p] = AfterReturn(response)]

\* A step that goes on to the next one; past the last one the handler
\* returns nil, nil.
Proceed(p, step) ==
    IF step = "return"
    THEN Return(p, Success(NoData))
    ELSE /\ pc' = [pc EXCEPT ![p] = step]
         /\ UNCHANGED resp

SignChecks(p) ==
    /\ pc[p] = "checks"
    /\ req[p].op = "sign"
    /\ LET c == signChecks(Policy(req[p].name), req[p])
       IN  IF c.ret # NoResponse
           THEN Return(p, c.ret) /\ UNCHANGED local
           ELSE /\ Proceed(p, "createcsr")
                /\ local' = [local EXCEPT ![p].keyVersion = c.keyVersion,
                                          ![p].subject = c.subject]
    /\ UNCHANGED <<cachingDisabled, certs, certs0, lock, req, hist>>

\* p.CreateCsr(signingKeyVersion, csrTemplate) and the response.
SignCreateCsr(p) ==
    /\ pc[p] = "createcsr"
    /\ LET r == CreateCsr(req[p].name, local[p].keyVersion, local[p].subject)
       IN  IF r.err # ""
           THEN Return(p, InternalError("CreateCsrFailed"))
           ELSE Return(p, Success(signResponse(Policy(req[p].name), r.csr)))
    /\ hist' = Bump(p, "csrCalls")
    /\ UNCHANGED <<cachingDisabled, certs, certs0, lock, req, local>>

ImportChecks(p) ==
    /\ pc[p] = "checks"
    /\ req[p].op = "import"
    /\ LET c == importChecks(Policy(req[p].name), req[p])
       IN  IF c.ret # NoResponse
           THEN Return(p, c.ret) /\ UNCHANGED local
           ELSE /\ Proceed(p, ImportNext("checks"))
                /\ local' = [local EXCEPT ![p].keyVersion = c.keyVersion,
                                          ![p].certChain = c.certChain]
    /\ UNCHANGED <<cachingDisabled, certs, certs0, lock, req, hist>>

\* p.ValidateLeafCertKeyMatch(keyVersion, algorithm, certChain[0].PublicKey)
ImportValidate(p) ==
    /\ pc[p] = "verify"
    /\ LET leaf == leafCertOf(local[p].certChain)
           r == ValidateLeafCertKeyMatch(req[p].name, local[p].keyVersion,
                                         leaf.PublicKeyAlgorithm, leaf.PublicKey)
       IN  /\ local' = [local EXCEPT ![p].err = r.err]
           /\ IF afterValidate(r.err, r.valid) # NoResponse
              THEN Return(p, afterValidate(r.err, r.valid))
              ELSE Proceed(p, ImportNext("verify"))
    /\ hist' = Bump(p, "verifyCalls")
    /\ UNCHANGED <<cachingDisabled, certs, certs0, lock, req>>

\* What follows p.PersistCertificateChain(...), whose result is persistErr.
AfterPersist(p, persistErr) ==
    IF errAfterPersist(local[p].err, persistErr) # ""
    THEN Return(p, InternalError("PersistenceFailed"))
    ELSE Proceed(p, ImportNext("persist"))

\* p.PersistCertificateChain(keyVersion, certChain, req.Storage) stores the chain.
ImportPersist(p) ==
    /\ pc[p] = "persist"
    /\ certs' = [certs EXCEPT ![<<req[p].name, local[p].keyVersion>>] = local[p].certChain]
    /\ hist' = Bump(p, "persistCalls")
    /\ AfterPersist(p, "")
    /\ UNCHANGED <<cachingDisabled, certs0, lock, req, local>>

\* p.PersistCertificateChain(...) fails in the storage and stores nothing.
ImportPersistFails(p) ==
    /\ pc[p] = "persist"
    /\ hist' = [hist EXCEPT ![p].persistCalls = @ + 1, ![p].persistFailed = TRUE]
    /\ AfterPersist(p, "StorageError")
    /\ UNCHANGED <<cachingDisabled, certs, certs0, lock, req, local>>

\* defer p.Unlock()
Unlock(p) ==
    /\ pc[p] = "unlock"
    /\ lock' = Released(p, req[p].name)
    /\ hist' = Bump(p, "unlockCalls")
    /\ pc' = [pc EXCEPT ![p] = "done"]
    /\ UNCHANGED <<cachingDisabled, certs, certs0, req, local, resp>>

Step(p, requests) ==
    \/ GetPolicyError(p, requests)
    \/ GetPolicyNil(p, requests)
    \/ GetPolicy(p, requests)
    \/ Lock(p)
    \/ SkipLock(p)
    \/ SignChecks(p)
    \/ SignCreateCsr(p)
    \/ ImportChecks(p)
    \/ ImportValidate(p)
    \/ ImportPersist(p)
    \/ ImportPersistFails(p)
    \/ Unlock(p)

\* One caller, any request.
Next == Step(1, Requests)

Spec == Init /\ [][Next]_vars

\* Concurrent callers.
ConcNext == \E p \in Callers : Step(p, ConcRequests)

ConcSpec == Init /\ [][ConcNext]_vars

\* ---------------------------------------------------------------- claims
IsImport(p) == req[p].op = "import"
IsSign(p) == req[p].op = "sign"
\* The call is between its lock step and its return.
InBody(p) == pc[p] \in {"checks", "createcsr", "verify", "persist", "unlock"}
\* The call is past the handler's checks.
PastChecks(p) == pc[p] \in {"verify", "persist", "unlock", "done"}
\* The number of leaf certificates of a chain, as a natural number.
TrueLeafCount(chain) == Cardinality({i \in 1..Len(chain) : IsLeaf(chain[i])})
\* A leaf certificate of a chain that has one.
TrueLeaf(chain) == chain[CHOOSE i \in 1..Len(chain) : IsLeaf(chain[i])]
\* The table of required public-key algorithms.
RequiredAlgorithm(type) ==
    CASE type \in EcdsaTypes -> "ECDSA"
      [] type \in Ed25519Types -> "Ed25519"
      [] type \in RsaTypes -> "RSA"
      [] OTHER -> "never"

\* The errors an import returns from key lookup and from its checks.
ImportCheckErrors ==
    {"LookupFailed", "KeyNotFound", "SigningUnsupported", "MalformedInput",
     "InvalidChain", "KeyTypeMismatch", "KeyMismatch", "ValidateFailed"}

\* C1: an import that returns an error of key lookup, signing support, chain
\* decoding, the single-leaf check, the algorithm check or key-match
\* verification has not called the store's persist and leaves every attachment
\* as it was before the call; once persist has been called the key match has
\* been verified and only the unlock and the return are left.
C1_NoMutationOnCheckError ==
    \A p \in Callers :
        IsImport(p) =>
            /\ resp[p].err \in ImportCheckErrors =>
                  hist[p].persistCalls = 0 /\ certs = certs0
            /\ hist[p].persistCalls > 0 =>
                  hist[p].verifyCalls = 1 /\ pc[p] \in {"unlock", "done"}

\* An import of a chain whose key does not match has returned KeyMismatch on a
\* store that already held a certificate.
C1_Witness ==
    \E p \in Callers :
        /\ pc[p] = "done" /\ IsImport(p)
        /\ resp[p] = UserError("KeyMismatch")
        /\ certs0[<<"rsa-2048", 1>>] # <<>>

\* C2: an import whose persist operation failed returns the internal
\* persistence-failure error, never success.
C2_PersistFailureReported ==
    \A p \in Callers :
        (pc[p] = "done" /\ hist[p].persistFailed) =>
            resp[p] = InternalError("PersistenceFailed")

\* C3: an import that succeeds was given a chain whose unique leaf certificate,
\* wherever it stands in the chain, carries the public key of the target
\* version; a chain whose leaf carries another key is answered KeyMismatch.
C3_AttachedLeafMatches ==
    \A p \in Callers :
        (IsImport(p) /\ pc[p] = "done" /\ TrueLeafCount(local[p].certChain) = 1) =>
            /\ resp[p].kind = "ok" =>
                  TrueLeaf(local[p].certChain).PublicKey = KeyPub(req[p].name, local[p].keyVersion)
            /\ (/\ hist[p].verifyCalls = 1
                /\ VersionExists(req[p].name, local[p].keyVersion)
                /\ TrueLeaf(local[p].certChain).PublicKey # KeyPub(req[p].name, local[p].keyVersion))
                  => resp[p] = UserError("KeyMismatch")

\* C4: for a signing-capable key and a chain with exactly one leaf, the import
\* answers KeyTypeMismatch exactly when the leaf's public-key algorithm is not
\* the one the table requires for the key's type.
C4_TypeCheckOnLeaf ==
    \A p \in Callers :
        (/\ IsImport(p) /\ req[p].name \in KeyNames
         /\ SigningSupported(Policy(req[p].name).Type)
         /\ parseCertificateChain(req[p].input).ok
         /\ TrueLeafCount(parseCertificateChain(req[p].input).certificates) = 1
         /\ pc[p] \in {"verify", "persist", "unlock", "done"}
         /\ resp[p].err # "LookupFailed") =>
            (resp[p] = UserError("KeyTypeMismatch")
                <=> TrueLeaf(parseCertificateChain(req[p].input).certificates).PublicKeyAlgorithm
                        # RequiredAlgorithm(Policy(req[p].name).Type))

\* C5: for a decodable chain on a signing-capable key, the import answers
\* InvalidChain exactly when the number of certificates with valid basic
\* constraints and IsCA false is not one.
C5_SingleLeafRule ==
    \A p \in Callers :
        (/\ IsImport(p) /\ req[p].name \in KeyNames
         /\ SigningSupported(Policy(req[p].name).Type)
         /\ parseCertificateChain(req[p].input).ok
         /\ pc[p] \in {"verify", "persist", "unlock", "done"}
         /\ resp[p].err # "LookupFailed") =>
            (resp[p] = UserError("InvalidChain")
                <=> TrueLeafCount(parseCertificateChain(req[p].input).certificates) # 1)

\* C6: with locking enabled, while an import is inside its body on a key no
\* other call, sign or import, is inside its body on that key.
C6_ImportExcludesAll ==
    ~cachingDisabled =>
        \A p, q \in Callers :
            (p # q /\ IsImport(p) /\ InBody(p) /\ InBody(q)) => req[q].name # req[p].name

\* An import is about to persist while another call waits for the same key's lock.
C6_Witness ==
    /\ ~cachingDisabled
    /\ \E p, q \in Callers :
        /\ p # q /\ IsImport(p) /\ pc[p] = "persist"
        /\ pc[q] = "lock" /\ req[q].name = req[p].name

\* C7: with locking enabled, a sign that waits for a key's lock while no
\* import holds or waits for that lock can take it, whatever other signs hold.
C7_SignNotBlockedBySigns ==
    ~cachingDisabled =>
        \A p \in Callers :
            (/\ IsSign(p) /\ pc[p] = "lock"
             /\ \A q \in Callers :
                    (IsImport(q) /\ req[q].name = req[p].name) => pc[q] \in {"idle", "done"})
                => LockAvailable(req[p].name, LockExclusive("sign"))

\* Two signs of different versions of one key are inside their bodies, both
\* holding the key's lock.
C7_Witness ==
    /\ ~cachingDisabled
    /\ \E p, q \in Callers :
        /\ p # q /\ IsSign(p) /\ IsSign(q) /\ req[p].name = req[q].name
        /\ pc[p] = "createcsr" /\ pc[q] = "createcsr"
        /\ local[p].keyVersion # local[q].keyVersion
        /\ {p, q} \subseteq lock[req[p].name].readers

\* C8: with locking enabled, a call that found its key holds the key's lock,
\* taken once, throughout its body, and has released it exactly once when it
\* has returned, whatever the response.
C8_LockReleasedOnce ==
    ~cachingDisabled =>
        \A p \in Callers :
            /\ (InBody(p) /\ pc[p] # "unlock") =>
                  /\ hist[p].lockCalls = 1 /\ hist[p].unlockCalls = 0
                  /\ HoldsLock(p, req[p].name)
            /\ (pc[p] = "done" /\ req[p].name \in KeyNames /\ resp[p].err # "LookupFailed") =>
                  /\ hist[p].lockCalls = 1 /\ hist[p].unlockCalls = 1
                  /\ ~HoldsLock(p, req[p].name)
            /\ pc[p] = "unlock" => resp[p] # NoResponse

\* An import has returned the internal verification error with locking enabled.
C8_Witness ==
    /\ ~cachingDisabled
    /\ \E p \in Callers :
        /\ pc[p] = "done" /\ IsImport(p)
        /\ resp[p] = InternalError("ValidateFailed")
        /\ hist[p].unlockCalls = 1

\* C9: with locking disabled no call takes or releases a key's lock; every
\* release follows an acquisition by the same call; a call that finds no key
\* does neither.
C9_ReleaseFollowsAcquire ==
    \A p \in Callers :
        /\ hist[p].unlockCalls <= hist[p].lockCalls
        /\ cachingDisabled => (hist[p].lockCalls = 0 /\ hist[p].unlockCalls = 0)
        /\ resp[p] = UserError("KeyNotFound") =>
              (hist[p].lockCalls = 0 /\ hist[p].unlockCalls = 0)

\* C10: a sign on a key whose type does not support signing never asks the
\* store for a CSR, returns none, and answers SigningUnsupported whatever the
\* version and template inputs are.
C10_SymmetricSignRefused ==
    \A p \in Callers :
        (IsSign(p) /\ req[p].name \in KeyNames /\ ~SigningSupported(Policy(req[p].name).Type)) =>
            /\ hist[p].csrCalls = 0
            /\ pc[p] # "createcsr"
            /\ resp[p].data = NoData
            /\ (pc[p] \in {"unlock", "done"} /\ resp[p].err # "LookupFailed") =>
                  resp[p] = UserError("SigningUnsupported")

\* A sign on the symmetric key with a malformed template and a version the key
\* does not have has been refused.
C10_Witness ==
    \E p \in Callers :
        /\ pc[p] = "done" /\ IsSign(p) /\ req[p].name = "aes256-gcm96"
        /\ req[p].version = <<2>> /\ req[p].input = <<Garbage>>
        /\ resp[p] = UserError("SigningUnsupported")

\* The version a request names: its "version" field, else the key's latest.
ExpectedVersion(p) ==
    IF req[p].version = <<>> THEN LatestVersion(req[p].name) ELSE req[p].version[1]
\* The call found its key: GetPolicy returned a policy.
FoundKey(p) == req[p].name \in KeyNames /\ resp[p].err # "LookupFailed"
\* A template of exactly one certificate-request block holding a request.
WellFormedTemplate(input) ==
    /\ Len(input) = 1
    /\ input[1].kind = "block" /\ input[1].type = "CERTIFICATE REQUEST"
    /\ input[1].what = "csr"

\* C11: a sign on a signing-capable key with a well-formed template, or with
\* none, for a version the key has, succeeds; the returned CSR carries the
\* template's subject (the empty one without a template) and the response
\* echoes the key's name and type.
C11_SignKeepsSubject ==
    \A p \in Callers :
        (/\ IsSign(p) /\ FoundKey(p) /\ pc[p] = "done"
         /\ SigningSupported(Policy(req[p].name).Type)
         /\ req[p].input = <<>> \/ WellFormedTemplate(req[p].input)
         /\ VersionExists(req[p].name, ExpectedVersion(p))) =>
            /\ resp[p].kind = "ok"
            /\ resp[p].data.subject = IF req[p].input = <<>> THEN "" ELSE req[p].input[1].subject
            /\ resp[p].data.name = req[p].name
            /\ resp[p].data.type = Policy(req[p].name).Type

\* A sign on the ed25519 key with a template has returned a CSR with the
\* template's subject.
C11_Witness ==
    \E p \in Callers :
        /\ pc[p] = "done" /\ IsSign(p) /\ req[p].name = "ed25519"
        /\ WellFormedTemplate(req[p].input)
        /\ resp[p].kind = "ok" /\ resp[p].data.subject = "CN=a"

\* The response the steps of a call give when each is taken in order and the
\* first that fails answers.
OrderedResponse(p) ==
    LET policy == Policy(req[p].name)
        parsed == parseCertificateChain(req[p].input)
        first == leafCertOf(parsed.certificates)
        match == ValidateLeafCertKeyMatch(req[p].name, ExpectedVersion(p),
                                          first.PublicKeyAlgorithm, first.PublicKey)
    IN  IF req[p].name \notin KeyNames THEN "KeyNotFound"
        ELSE IF ~SigningSupported(policy.Type) THEN "SigningUnsupported"
        ELSE IF IsSign(p)
             THEN IF ~parseCsr(req[p].input).ok THEN "MalformedInput"
                  ELSE IF ~VersionExists(req[p].name, ExpectedVersion(p)) THEN "CreateCsrFailed"
                  ELSE ""
        ELSE IF ~parsed.ok THEN "MalformedInput"
        ELSE IF ~hasSingleLeafCertificate(parsed.certificates) THEN "InvalidChain"
        ELSE IF ~keyTypeMatches(policy.Type, first.PublicKeyAlgorithm) THEN "KeyTypeMismatch"
        ELSE IF match.err # "" THEN "ValidateFailed"
        ELSE IF ~match.valid THEN "KeyMismatch"
        ELSE IF hist[p].persistFailed THEN "PersistenceFailed"
        ELSE ""

\* C12: a call that has returned reports the error of the first failing step,
\* in the order key lookup, signing support, decoding, single leaf, key type,
\* key match, persistence (for a sign: key lookup, signing support, decoding,
\* store), and has run no step after the failing one.
C12_FirstFailureReported ==
    \A p \in Callers :
        (pc[p] = "done" /\ resp[p].err # "LookupFailed") =>
            /\ resp[p].err = OrderedResponse(p)
            /\ resp[p].err = "KeyNotFound" => hist[p].lockCalls = 0
            /\ resp[p].err \in {"KeyNotFound", "SigningUnsupported", "MalformedInput",
                                "InvalidChain", "KeyTypeMismatch"} =>
                  hist[p].verifyCalls = 0 /\ hist[p].csrCalls = 0
            /\ resp[p].err \in {"ValidateFailed", "KeyMismatch"} => hist[p].persistCalls = 0

\* C13: when the store answers "no match" the import returns the user's
\* KeyMismatch error; when the store cannot complete the check the import
\* returns an internal error; in both cases persist is not called and no
\* attachment changes.
C13_MatchAnswerMapped ==
    \A p \in Callers :
        (IsImport(p) /\ hist[p].verifyCalls = 1) =>
            LET first == leafCertOf(local[p].certChain)
                answer == ValidateLeafCertKeyMatch(req[p].name, local[p].keyVersion,
                                                   first.PublicKeyAlgorithm, first.PublicKey)
            IN  /\ answer.err # "" =>
                      /\ resp[p].kind = "internal" /\ resp[p].err = "ValidateFailed"
                      /\ hist[p].persistCalls = 0 /\ certs = certs0
                /\ (answer.err = "" /\ ~answer.valid) =>
                      /\ resp[p].kind = "user" /\ resp[p].err = "KeyMismatch"
                      /\ hist[p].persistCalls = 0 /\ certs = certs0

\* An import that names a version the key does not have has returned the
\* internal error.
C13_Witness ==
    \E p \in Callers :
        /\ pc[p] = "done" /\ IsImport(p)
        /\ ~VersionExists(req[p].name, local[p].keyVersion)
        /\ hist[p].verifyCalls = 1
        /\ resp[p].kind = "internal"

\* C14: the version a call works on is the "version" field when given and the
\* key's latest version otherwise: a sign asks for the CSR of that version,
\* an import verifies against that version and attaches to that version, and
\* to no other.
C14_TargetVersion ==
    \A p \in Callers :
        /\ (IsSign(p) /\ hist[p].csrCalls = 1) =>
              /\ local[p].keyVersion = ExpectedVersion(p)
              /\ resp[p].kind = "ok" => resp[p].data.pub = KeyPub(req[p].name, ExpectedVersion(p))
        /\ (IsImport(p) /\ hist[p].verifyCalls = 1) =>
              local[p].keyVersion = ExpectedVersion(p)
        /\ (IsImport(p) /\ hist[p].persistCalls = 1) =>
              /\ local[p].keyVersion = ExpectedVersion(p)
              /\ \A kv \in StoredVersions :
                    kv # <<req[p].name, ExpectedVersion(p)>> => certs[kv] = certs0[kv]
              /\ ~hist[p].persistFailed =>
                    certs[<<req[p].name, ExpectedVersion(p)>>] = local[p].certChain

\* An import that names version 1 of rsa-2048, whose latest version is 2, has
\* attached the chain to version 1.
C14_Witness ==
    \E p \in Callers :
        /\ pc[p] = "done" /\ IsImport(p) /\ req[p].name = "rsa-2048"
        /\ req[p].version = <<1>> /\ resp[p].kind = "ok"
        /\ certs[<<"rsa-2048", 1>>] = <<LeafRsa1>> /\ certs0[<<"rsa-2048", 1>>] = <<>>
        /\ certs[<<"rsa-2048", 2>>] = <<>>

\* C15: parseCsr accepts the empty string and a template of exactly one
\* certificate-request block with a parseable request, and answers every
\* other input (no block, a block of another type, more than one block,
\* trailing data, unparseable contents) with MalformedInput.
C15_ParseCsrStrict ==
    \A p \in Callers :
        (/\ IsSign(p) /\ FoundKey(p)
         /\ SigningSupported(Policy(req[p].name).Type)
         /\ pc[p] \in {"createcsr", "unlock", "done"}) =>
            (resp[p] = UserError("MalformedInput")
                <=> ~(req[p].input = <<>> \/ WellFormedTemplate(req[p].input)))

\* The certificates of the blocks of an input, in input order.
CertsOf(input) == [i \in 1..Len(input) |-> input[i].cert]
\* The input is the concatenated PEM encoding of one or more certificates.
IsEncodedChain(input) == Len(input) >= 1 /\ input = EncodeChain(CertsOf(input))

\* C16: decoding the concatenated PEM encoding of N >= 1 certificates gives
\* exactly those N certificates in the same order, and that is the chain the
\* import goes on with.
C16_DecodeInvertsEncode ==
    \A p \in Callers :
        (IsImport(p) /\ IsEncodedChain(req[p].input)) =>
            /\ parseCertificateChain(req[p].input).ok
            /\ parseCertificateChain(req[p].input).certificates = CertsOf(req[p].input)
            /\ pc[p] \in {"verify", "persist"} => local[p].certChain = CertsOf(req[p].input)
            /\ (pc[p] \in {"unlock", "done"} /\ FoundKey(p)
                /\ SigningSupported(Policy(req[p].name).Type)) =>
                  resp[p] # UserError("MalformedInput")

\* An import of the encoding of a CA certificate followed by a leaf goes on
\* with those two certificates in that order.
C16_Witness ==
    \E p \in Callers :
        /\ IsImport(p) /\ pc[p] = "verify"
        /\ req[p].input = EncodeChain(<<CaRsa2, LeafRsa2>>)
        /\ local[p].certChain = <<CaRsa2, LeafRsa2>>

\* An input parseCertificateChain must refuse: empty, ending in text that
\* holds no PEM block, or holding a block that is no certificate.
Undecodable(input) ==
    \/ Len(input) = 0
    \/ ~IsBlock(input[Len(input)])
    \/ \E i \in 1..Len(input) : IsBlock(input[i]) /\ input[i].what # "cert"

\* C17: an import of an input that is empty, that ends in text holding no PEM
\* block, or that holds a block that is no certificate is answered
\* MalformedInput with no certificate kept, however many blocks are valid;
\* an accepted input yields one certificate for each of its blocks.
C17_NoPartialChain ==
    \A p \in Callers :
        (/\ IsImport(p) /\ FoundKey(p)
         /\ SigningSupported(Policy(req[p].name).Type)
         /\ pc[p] \in {"verify", "persist", "unlock", "done"}) =>
            LET parsed == parseCertificateChain(req[p].input)
            IN  /\ Undecodable(req[p].input) =>
                      /\ resp[p] = UserError("MalformedInput")
                      /\ local[p].certChain = <<>> /\ hist[p].verifyCalls = 0
                      /\ ~parsed.ok /\ parsed.certificates = <<>>
                /\ ~Undecodable(req[p].input) =>
                      /\ parsed.ok
                      /\ Len(parsed.certificates) = Len(SelectSeq(req[p].input, IsBlock))
                      /\ resp[p] # UserError("MalformedInput")

\* An import of a block that is no certificate followed by a valid leaf
\* certificate has been refused.
C17_Witness ==
    \E p \in Callers :
        /\ pc[p] = "done" /\ IsImport(p) /\ req[p].name = "rsa-2048"
        /\ req[p].input = <<JunkBlock, CertBlock(LeafRsa2)>>
        /\ resp[p] = UserError("MalformedInput")

\* C18: for every chain the decoder accepts, the leaf counter equals the
\* number of leaf certificates of the chain, so the single-leaf test passes
\* only for chains with exactly one leaf.
C18_LeafCounterExact ==
    \A p \in Callers :
        (/\ IsImport(p) /\ FoundKey(p)
         /\ SigningSupported(Policy(req[p].name).Type)
         /\ pc[p] \in {"verify", "persist", "unlock", "done"}
         /\ parseCertificateChain(req[p].input).ok) =>
            LET chain == parseCertificateChain(req[p].input).certificates
            IN  /\ leafCertsCount(chain) = TrueLeafCount(chain)
                /\ hasSingleLeafCertificate(chain) => TrueLeafCount(chain) = 1

\* C19: an import that has returned success has attached its chain to the
\* target version and left every other attachment as it was; a sign leaves
\* every attachment as it was.
C19_OnlyTargetChanges ==
    \A p \in Callers :
        /\ IsSign(p) => certs = certs0
        /\ (IsImport(p) /\ pc[p] = "done" /\ resp[p].kind = "ok") =>
              /\ certs[<<req[p].name, ExpectedVersion(p)>>] = local[p].certChain
              /\ \A kv \in StoredVersions :
                    kv # <<req[p].name, ExpectedVersion(p)>> => certs[kv] = certs0[kv]
        /\ (IsImport(p) /\ resp[p].kind \in {"user", "internal"}) => certs = certs0

\* A call that has arrived keeps being scheduled: its next step is taken if
\* it stays possible, and a key's lock is granted to a waiting call once it
\* stays free.  Nothing obliges a call to arrive.
Fairness == \A p \in Callers : WF_vars(pc[p] # "idle" /\ Step(p, ConcRequests))

FairSpec == ConcSpec /\ Fairness

\* C20: under fair scheduling every call that has arrived returns, so no
\* caller waits for a key's lock forever, and no call invokes a store
\* capability more than once.
C20_EveryCallReturns ==
    /\ \A p \in Callers : (pc[p] # "idle") ~> (pc[p] = "done")
    /\ [](\A p \in Callers :
            /\ hist[p].lockCalls <= 1 /\ hist[p].unlockCalls <= 1
            /\ hist[p].csrCalls <= 1 /\ hist[p].verifyCalls <= 1
            /\ hist[p].persistCalls <= 1)

\* Every caller has returned, an import and a sign of one key among them,
\* both having held the key's lock.
C20_Witness ==
    /\ ~cachingDisabled
    /\ \A p \in Callers : pc[p] = "done"
    /\ \E p, q \in Callers :
        /\ IsImport(p) /\ IsSign(q) /\ req[p].name = req[q].name
        /\ hist[p].lockCalls = 1 /\ hist[q].lockCalls = 1

====
